---- MODULE Spec2Model ----
(***************************************************************************)
(* Model of the bidirectional greedy router of hyperbolic-networks         *)
(* (src/visualization/src/routing.ts) and of the inputs the application    *)
(* hands to it (src/visualization/src/main.tsx).                           *)
(*                                                                         *)
(* Numbers.  An EmbeddedNode carries r and theta.  The model keeps r as    *)
(* the integer k with r = ln k and theta as the integer t with             *)
(* theta = t * pi, so cosh r, sinh r and cos(theta) are rationals and the  *)
(* argument of acosh in hyperbolicDistance is an exact rational.  A        *)
(* distance d is kept as the rational exp(d) = <<p, q>> in lowest terms:   *)
(* d = 0 is <<1, 1>>, d1 < d2 is p1*q2 < p2*q1 and d1 + d2 is the product  *)
(* of the two rationals.  +Infinity and NaN are separate values.           *)
(***************************************************************************)
EXTENDS Integers, Sequences, FiniteSets, TLC

\* ------------------------------------------------------------------ bounds
NumNodes == 4

Ids == 1..NumNodes
\* r = ln k for k in Radii
Radii == {1, 2}
\* theta in units of pi, within (-pi, pi]
Thetas == {0, 1}
\* <<k, t>>: the origin (k = 1, r = 0) is one point whatever its angle and
\* is given the angle 0; the other radii take both ends of a diameter
Coords == {<<1, 0>>} \cup ((Radii \ {1}) \X Thetas)
\* the numbers of rows of an edge list
EdgeRows == 0..3

\* ------------------------------------------------------- exact arithmetic
Abs(x) == IF x < 0 THEN -x ELSE x
Min(a, b) == IF a < b THEN a ELSE b
Max(a, b) == IF a > b THEN a ELSE b

RECURSIVE GCD(_, _)
GCD(a, b) == IF b = 0 THEN a ELSE GCD(b, a % b)

\* the rational p/q in lowest terms
Rat(p, q) == LET g == GCD(p, q) IN <<p \div g, q \div g>>

\* Math.sqrt on a perfect square, by Newton's iteration from above
RECURSIVE IsqrtFrom(_, _)
IsqrtFrom(n, s) ==
  IF s * s <= n THEN s ELSE IsqrtFrom(n, (s + n \div s) \div 2)
Isqrt(n) == IF n = 0 THEN 0 ELSE IsqrtFrom(n, n)

Infinity == <<1, 0>>
NaN == <<0, 0>>
Zero == <<1, 1>>

\* a < b on distances (Infinity is above every finite distance)
DistLess(a, b) == a # Infinity /\ (b = Infinity \/ a[1] * b[2] < b[1] * a[2])
\* a + b on finite distances
DistAdd(a, b) == Rat(a[1] * b[1], a[2] * b[2])

\* a / b on finite distances a, b >= 0: the IEEE cases 0/0 and x/0, the
\* value 1 when the two are equal, and otherwise the quotient ln a / ln b
\* kept as the pair
One == [kind |-> "one", num |-> Zero, den |-> Zero]
DistDiv(a, b) ==
  IF b = Zero
    THEN IF a = Zero THEN [kind |-> "nan", num |-> a, den |-> b]
                     ELSE [kind |-> "inf", num |-> a, den |-> b]
    ELSE IF a = b THEN One
                  ELSE [kind |-> "ratio", num |-> a, den |-> b]
StretchInfinity == [kind |-> "inf", num |-> Infinity, den |-> Infinity]

\* ------------------------------------------------------------ routing.ts
\* cos(m * pi)
CosPi(m) == IF m % 2 = 0 THEN 1 ELSE -1

hyperbolicDistance(node1, node2) ==
  LET deltaTheta == Abs(node1.t - node2.t)
      minDeltaTheta == Min(deltaTheta, 2 - deltaTheta)
      k1 == node1.k
      k2 == node2.k
      \* cosh(ln k) = (k^2 + 1) / 2k, sinh(ln k) = (k^2 - 1) / 2k
      den == 4 * k1 * k2
      coshTerm == (k1 * k1 + 1) * (k2 * k2 + 1)
      sinhTerm == (k1 * k1 - 1) * (k2 * k2 - 1) * CosPi(minDeltaTheta)
      arg == coshTerm - sinhTerm
      x == Max(den, arg)
      \* acosh(x) = ln(x + sqrt(x^2 - 1))
  IN Rat(x + Isqrt(x * x - den * den), den)

\* ------------------------------------------------------------ JS arrays
\* Array.prototype.findIndex with an id test: 0-based, -1 when absent
findIndex(arr, id) ==
  IF \E i \in 1..Len(arr) : arr[i].id = id
    THEN (CHOOSE i \in 1..Len(arr) :
            arr[i].id = id /\ \A j \in 1..(i - 1) : arr[j].id # id) - 1
    ELSE -1

\* Array.prototype.slice(begin, end): 0-based, end exclusive, a negative
\* index counts from the end
slice(arr, begin, end) ==
  LET n == Len(arr)
      b == IF begin < 0 THEN Max(n + begin, 0) ELSE Min(begin, n)
      e == IF end < 0 THEN Max(n + end, 0) ELSE Min(end, n)
  IN IF e <= b THEN <<>> ELSE [i \in 1..(e - b) |-> arr[b + i]]

reverse(arr) == [i \in 1..Len(arr) |-> arr[Len(arr) + 1 - i]]

\* ------------------------------------------------------------ variables
VARIABLES
  adjacency,        \* Map<string, Set<string>>: id -> ids in insertion order
  nodeMap,          \* Map<string, EmbeddedNode>
  startNode, endNode,
  forwardPath, backwardPath,
  forwardVisited, backwardVisited,
  forwardCurrent, backwardCurrent,
  forwardPrevious, backwardPrevious,
  forwardMoved, backwardMoved,
  iterations,       \* passes of while (true) started by this call
  pc,               \* "idle", "forward", "backward", "check", "done"
  result,           \* the RoutingResult returned
  \* embedNetwork
  edges,            \* Edge[] handed to buildGraph: <<source, target>> rows
  nodes,            \* string[]: Array.from(nodeSet), in insertion order
  stringAdjacency,  \* Map<string, Set<string>> of buildGraph
  degrees,          \* Map<string, number>
  copy,             \* which copy of the embedding module runs
  stats,            \* NetworkStats
  sortedNodes,      \* nodes by descending degree
  thetas,           \* Float64Array / Map of angles, by sorted index
  round,            \* the round of phase 1
  cursor,           \* the loop index i of the running phase
  emitted,          \* EmbeddedNode[] returned
  epc,              \* the position inside embedNetwork; "off" outside it
  lastRun,          \* what the run before this one returned for this csv
  writes,           \* the sorted indices thetas was written at in phase 2
  parser,           \* a call of parseCSV: its position, csv and edges
  climb,            \* a call of optimizeThetaGradientDescentFast
  answers,          \* the results of the routing calls made so far
  worker,           \* the embedding worker: the handler runs and the replies
  app               \* the App component: its state and its requests

vars == <<adjacency, nodeMap, startNode, endNode,
          forwardPath, backwardPath, forwardVisited, backwardVisited,
          forwardCurrent, backwardCurrent, forwardPrevious, backwardPrevious,
          forwardMoved, backwardMoved, iterations, pc, result,
          edges, nodes, stringAdjacency, degrees, copy, stats, sortedNodes,
          thetas, round, cursor, emitted, epc, lastRun, writes, parser,
          climb, answers, worker, app>>

inputs == <<adjacency, nodeMap>>
router == <<adjacency, nodeMap, startNode, endNode,
            forwardPath, backwardPath, forwardVisited, backwardVisited,
            forwardCurrent, backwardCurrent, forwardPrevious,
            backwardPrevious, forwardMoved, backwardMoved, iterations, pc,
            result>>
embedding == <<edges, nodes, stringAdjacency, degrees, copy, stats,
               sortedNodes, thetas, round, cursor, emitted, epc, lastRun,
               writes>>
graph == <<edges, nodes, stringAdjacency, degrees, copy>>
calls == <<parser, climb>>
callers == <<answers, worker, app>>
walks == <<forwardPath, backwardPath, forwardVisited, backwardVisited,
           forwardCurrent, backwardCurrent, forwardPrevious, backwardPrevious>>

\* null and undefined, in the shape of an EmbeddedNode so that they compare
Null == [id |-> 0, k |-> 1, t |-> 0]
Undefined == [id |-> -1, k |-> 1, t |-> 0]

\* ------------------------------------------------------------ main.tsx
\* the adjacency memo: both directions of every edge, each Set in the order
\* its members were first added
RECURSIVE addEdges(_, _)
addEdges(adj, es) ==
  IF es = <<>> THEN adj
  ELSE LET source == es[1][1]
           target == es[1][2]
           a1 == IF source \in DOMAIN adj THEN adj
                 ELSE [x \in DOMAIN adj \cup {source} |->
                         IF x = source THEN <<>> ELSE adj[x]]
           a2 == IF target \in DOMAIN a1 THEN a1
                 ELSE [x \in DOMAIN a1 \cup {target} |->
                         IF x = target THEN <<>> ELSE a1[x]]
           has(set, m) == \E i \in 1..Len(set) : set[i] = m
           a3 == [a2 EXCEPT ![source] =
                    IF has(@, target) THEN @ ELSE Append(@, target)]
           a4 == [a3 EXCEPT ![target] =
                    IF has(@, source) THEN @ ELSE Append(@, source)]
       IN addEdges(a4, Tail(es))

buildAdjacency(es) == addEdges([x \in {} |-> <<>>], es)

\* Map.get
nodeMapGet(id) == IF id \in DOMAIN nodeMap THEN nodeMap[id] ELSE Undefined

\* neighboursOf taking every node of the map instead of the ids given
neighboursOfEveryNode(ids) ==
  LET all == [i \in 1..NumNodes |-> nodeMapGet(i)]
  IN SelectSeq(all, LAMBDA n : n # Undefined)

\* Array.from(ids).map((id) => nodeMap.get(id)).filter((n) => n !== undefined)
neighboursOf(ids) ==
  SelectSeq([i \in 1..Len(ids) |-> nodeMapGet(ids[i])],
            LAMBDA n : n # Undefined)

\* findClosestNeighbour without the visited.has(neighbour.id) test
findClosestNeighbourRevisiting(targetNode, neighbours, visited, previousNode) ==
  LET candidate(i) ==
        ~ (previousNode # Null /\ neighbours[i].id = previousNode.id)
      dist(i) == hyperbolicDistance(neighbours[i], targetNode)
      best(i) ==
        /\ candidate(i)
        /\ \A j \in 1..(i - 1) : candidate(j) => DistLess(dist(i), dist(j))
        /\ \A j \in (i + 1)..Len(neighbours) :
             candidate(j) => ~ DistLess(dist(j), dist(i))
  IN IF \E i \in 1..Len(neighbours) : best(i)
       THEN neighbours[CHOOSE i \in 1..Len(neighbours) : best(i)]
       ELSE Null

\* findClosestNeighbour with dist <= bestDistance: the last of several
\* closest candidates
findClosestNeighbourLast(targetNode, neighbours, visited, previousNode) ==
  LET candidate(i) ==
        ~ (neighbours[i].id \in visited
           \/ (previousNode # Null /\ neighbours[i].id = previousNode.id))
      dist(i) == hyperbolicDistance(neighbours[i], targetNode)
      best(i) ==
        /\ candidate(i)
        /\ \A j \in 1..(i - 1) : candidate(j) => ~ DistLess(dist(j), dist(i))
        /\ \A j \in (i + 1)..Len(neighbours) :
             candidate(j) => DistLess(dist(i), dist(j))
  IN IF \E i \in 1..Len(neighbours) : best(i)
       THEN neighbours[CHOOSE i \in 1..Len(neighbours) : best(i)]
       ELSE Null

findClosestNeighbour(targetNode, neighbours, visited, previousNode) ==
  LET candidate(i) ==
        ~ (neighbours[i].id \in visited
           \/ (previousNode # Null /\ neighbours[i].id = previousNode.id))
      dist(i) == hyperbolicDistance(neighbours[i], targetNode)
      \* the loop keeps the first candidate that no earlier candidate ties or
      \* beats and no later candidate beats
      best(i) ==
        /\ candidate(i)
        /\ DistLess(dist(i), Infinity)
        /\ \A j \in 1..(i - 1) : candidate(j) => DistLess(dist(i), dist(j))
        /\ \A j \in (i + 1)..Len(neighbours) :
             candidate(j) => ~ DistLess(dist(j), dist(i))
  IN IF \E i \in 1..Len(neighbours) : best(i)
       THEN neighbours[CHOOSE i \in 1..Len(neighbours) : best(i)]
       ELSE Null

\* let pathDistance = 0; for (...) pathDistance += hyperbolicDistance(...)
RECURSIVE pathDistanceOf(_)
pathDistanceOf(path) ==
  IF Len(path) < 2 THEN Zero
  ELSE DistAdd(hyperbolicDistance(path[1], path[2]), pathDistanceOf(Tail(path)))

NoResult ==
  [success |-> FALSE, path |-> <<>>, forwardPath |-> <<>>,
   backwardPath |-> <<>>, meetingNode |-> Null, distance |-> NaN,
   stretch |-> [kind |-> "none", num |-> NaN, den |-> NaN], pathLength |-> -1]

\* the object literal of the four successful returns inside the loop
successResult(fullPath, fPath, bPath, meeting) ==
  LET directDistance == hyperbolicDistance(startNode, endNode)
      pathDistance == pathDistanceOf(fullPath)
  IN [success |-> TRUE, path |-> fullPath, forwardPath |-> fPath,
      backwardPath |-> bPath, meetingNode |-> meeting,
      distance |-> pathDistance,
      stretch |-> DistDiv(pathDistance, directDistance),
      pathLength |-> Len(fullPath) - 1]

\* ------------------------------------------------------------ inputs
Pairs == {e \in Ids \X Ids : e[1] < e[2]}

\* the edge lists: distinct undirected edges, in every order of their rows
EdgeLists ==
  UNION {{l \in [1..n -> Pairs] : \A i, j \in 1..n : i # j => l[i] # l[j]} :
           n \in EdgeRows}

Adjacencies == {buildAdjacency(l) : l \in EdgeLists}

\* the node maps over the ids D, every node at every coordinate
NodeMaps(D) ==
  {[i \in D |-> [id |-> i, k |-> c[i][1], t |-> c[i][2]]] : c \in [D -> Coords]}

\* no call of parseCSV or of the ascent is observed
CallsOff ==
  /\ parser = [pc |-> "off", csv |-> <<>>, edges |-> <<>>]
  /\ climb = [pc |-> "off"]

\* no caller of the routines is observed
CallersOff ==
  /\ answers = <<>>
  /\ worker = [pc |-> "off"]
  /\ app = [pc |-> "off"]

\* no embedding runs while the router is observed
EmbeddingOff ==
  /\ edges = <<>>
  /\ nodes = <<>>
  /\ stringAdjacency = <<>>
  /\ degrees = <<>>
  /\ copy = "off"
  /\ stats = <<>>
  /\ sortedNodes = <<>>
  /\ thetas = <<>>
  /\ round = 0
  /\ cursor = 0
  /\ emitted = <<>>
  /\ epc = "off"
  /\ lastRun = <<>>
  /\ writes = <<>>

\* the nodes of a call: the ids of the edge list and the two ends of the route
Init ==
  /\ adjacency \in Adjacencies
  /\ nodeMap \in NodeMaps(DOMAIN adjacency \cup {1, 2})
  /\ startNode = Null
  /\ endNode = Null
  /\ forwardPath = <<>>
  /\ backwardPath = <<>>
  /\ forwardVisited = {}
  /\ backwardVisited = {}
  /\ forwardCurrent = Null
  /\ backwardCurrent = Null
  /\ forwardPrevious = Null
  /\ backwardPrevious = Null
  /\ forwardMoved = FALSE
  /\ backwardMoved = FALSE
  /\ iterations = 0
  /\ pc = "idle"
  /\ result = NoResult
  /\ EmbeddingOff
  /\ CallsOff
  /\ CallersOff

\* ------------------------------------------- bidirectionalGreedyRouting
\* identityResult with the stretch computed as distance / directDistance
identityResultDivided(s) ==
  [success |-> TRUE, path |-> <<s>>, forwardPath |-> <<s>>,
   backwardPath |-> <<>>, meetingNode |-> s, distance |-> Zero,
   stretch |-> DistDiv(Zero, hyperbolicDistance(s, s)), pathLength |-> 0]

\* the return of the start.id === end.id case
identityResult(s) ==
  [success |-> TRUE, path |-> <<s>>, forwardPath |-> <<s>>,
   backwardPath |-> <<>>, meetingNode |-> s, distance |-> Zero,
   stretch |-> One, pathLength |-> 0]

\* meets that never finds the other walk
meetsNever(next, visited) == FALSE

\* backwardVisited.has(forwardNext.id), forwardVisited.has(backwardNext.id)
meets(next, visited) == next.id \in visited

\* forwardMeeting that returns the whole backward walk
forwardMeetingWholeBackward(fPath, forwardNext) ==
  LET meetingIndex == findIndex(backwardPath, forwardNext.id)
      fullPath == fPath \o reverse(slice(backwardPath, 0, meetingIndex))
  IN successResult(fullPath, fPath, backwardPath, forwardNext)

\* forwardMeeting that forgets the rest of the backward walk
forwardMeetingNoTail(fPath, forwardNext) ==
  LET meetingIndex == findIndex(backwardPath, forwardNext.id)
  IN successResult(fPath, fPath,
                   slice(backwardPath, 0, meetingIndex + 1), forwardNext)

\* the return when the forward hop lands on a node of the backward walk;
\* fPath is forwardPath after the push
forwardMeeting(fPath, forwardNext) ==
  LET meetingIndex == findIndex(backwardPath, forwardNext.id)
      fullPath == fPath \o reverse(slice(backwardPath, 0, meetingIndex))
  IN successResult(fullPath, fPath,
                   slice(backwardPath, 0, meetingIndex + 1), forwardNext)

\* the return when the forward hop is the end node itself
forwardReachedEnd(fPath) == successResult(fPath, fPath, <<>>, endNode)

\* backwardMeeting that keeps the last backward entry (the meeting node twice)
backwardMeetingKeepLast(bPath, backwardNext) ==
  LET meetingIndex == findIndex(forwardPath, backwardNext.id)
      fullPath == slice(forwardPath, 0, meetingIndex + 1) \o reverse(bPath)
  IN successResult(fullPath, slice(forwardPath, 0, meetingIndex + 1),
                   bPath, backwardNext)

\* backwardMeeting that does not cut the forward walk at the meeting index
backwardMeetingNoCut(bPath, backwardNext) ==
  LET meetingIndex == findIndex(forwardPath, backwardNext.id)
      fullPath == forwardPath \o reverse(slice(bPath, 0, -1))
  IN successResult(fullPath, slice(forwardPath, 0, meetingIndex + 1),
                   bPath, backwardNext)

\* backwardMeeting that cuts the forward walk one entry early
backwardMeetingCutEarly(bPath, backwardNext) ==
  LET meetingIndex == findIndex(forwardPath, backwardNext.id)
      fullPath == slice(forwardPath, 0, meetingIndex)
                    \o reverse(slice(bPath, 0, -1))
  IN successResult(fullPath, slice(forwardPath, 0, meetingIndex + 1),
                   bPath, backwardNext)

\* the return when the backward hop lands on a node of the forward walk;
\* bPath is backwardPath after the push
backwardMeeting(bPath, backwardNext) ==
  LET meetingIndex == findIndex(forwardPath, backwardNext.id)
      fullPath == slice(forwardPath, 0, meetingIndex + 1)
                    \o reverse(slice(bPath, 0, -1))
  IN successResult(fullPath, slice(forwardPath, 0, meetingIndex + 1),
                   bPath, backwardNext)

\* the return when the backward hop is the start node itself
backwardReachedStart(bPath) ==
  successResult(forwardPath \o reverse(slice(bPath, 1, Len(bPath))),
                forwardPath, bPath, startNode)

\* the return of a pass in which neither walk moved
stallResult ==
  [success |-> FALSE, path |-> <<>>, forwardPath |-> forwardPath,
   backwardPath |-> backwardPath, meetingNode |-> Null,
   distance |-> Infinity, stretch |-> StretchInfinity, pathLength |-> 0]

\* nextHop that also keeps off the nodes the other walk visited
nextHopAvoidingBoth(current, target, visited, previous) ==
  IF current.id \in DOMAIN adjacency
    THEN findClosestNeighbour(target, neighboursOf(adjacency[current.id]),
                              forwardVisited \cup backwardVisited, previous)
    ELSE Null

\* one hop: adjacency.get(current.id), the neighbour nodes, the closest
nextHop(current, target, visited, previous) ==
  IF current.id \in DOMAIN adjacency
    THEN findClosestNeighbour(target, neighboursOf(adjacency[current.id]),
                              visited, previous)
    ELSE Null

\* the loop of greedyRouting from currentNode on; <<>> stands for null
RECURSIVE greedyWalk(_, _, _, _, _)
greedyWalk(e, path, visited, currentNode, previousNode) ==
  IF currentNode.id \notin DOMAIN adjacency THEN <<>>
  ELSE LET neighbours == neighboursOf(adjacency[currentNode.id])
           nextNode == findClosestNeighbour(e, neighbours, visited,
                                            previousNode)
       IN IF nextNode = Null THEN <<>>
          ELSE IF nextNode.id = e.id THEN Append(path, nextNode)
          ELSE greedyWalk(e, Append(path, nextNode),
                          visited \cup {nextNode.id}, nextNode, currentNode)

\* greedyRouting(startNode, endNode, adjacency, nodeMap)
greedyRouting(s, e) ==
  IF s.id = e.id THEN <<s>>
  ELSE greedyWalk(e, <<s>>, {s.id}, s, Null)

\* passes of while (true) that may be started; no call needs more than
\* the number of nodes
IterCap == NumNodes + 2

\* Call that makes an empty Set for an end the adjacency does not know
CallClaiming(s, e) ==
  /\ pc = "idle"
  /\ startNode' = s
  /\ endNode' = e
  /\ adjacency' = [x \in DOMAIN adjacency \cup {s.id, e.id} |->
                     IF x \in DOMAIN adjacency THEN adjacency[x] ELSE <<>>]
  /\ IF s.id = e.id
       THEN /\ result' = identityResult(s)
            /\ pc' = "done"
            /\ UNCHANGED walks
       ELSE /\ forwardPath' = <<s>>
            /\ backwardPath' = <<e>>
            /\ forwardVisited' = {s.id}
            /\ backwardVisited' = {e.id}
            /\ forwardCurrent' = s
            /\ backwardCurrent' = e
            /\ forwardPrevious' = Null
            /\ backwardPrevious' = Null
            /\ pc' = "forward"
            /\ UNCHANGED result
  /\ UNCHANGED <<nodeMap, embedding, calls, callers, forwardMoved,
                 backwardMoved, iterations>>

\* entry: the identity return, or the initialisation of the two walks
Call(s, e) ==
  /\ pc = "idle"
  /\ startNode' = s
  /\ endNode' = e
  /\ IF s.id = e.id
       THEN /\ result' = identityResult(s)
            /\ pc' = "done"
            /\ UNCHANGED walks
       ELSE /\ forwardPath' = <<s>>
            /\ backwardPath' = <<e>>
            /\ forwardVisited' = {s.id}
            /\ backwardVisited' = {e.id}
            /\ forwardCurrent' = s
            /\ backwardCurrent' = e
            /\ forwardPrevious' = Null
            /\ backwardPrevious' = Null
            /\ pc' = "forward"
            /\ UNCHANGED result
  /\ UNCHANGED <<inputs, embedding, calls, callers, forwardMoved, backwardMoved, iterations>>

\* the forward half of a pass
ForwardStep ==
  /\ pc = "forward"
  /\ iterations < IterCap
  /\ iterations' = iterations + 1
  /\ LET forwardNext ==
           nextHop(forwardCurrent, endNode, forwardVisited, forwardPrevious)
         fPath == Append(forwardPath, forwardNext)
     IN IF forwardNext = Null
          THEN /\ forwardMoved' = FALSE
               /\ pc' = "backward"
               /\ UNCHANGED <<walks, result>>
          ELSE /\ forwardPath' = fPath
               /\ forwardVisited' = forwardVisited \cup {forwardNext.id}
               /\ IF meets(forwardNext, backwardVisited)
                    THEN /\ result' = forwardMeeting(fPath, forwardNext)
                         /\ pc' = "done"
                         /\ forwardMoved' = FALSE
                         /\ UNCHANGED <<forwardPrevious, forwardCurrent>>
                    ELSE /\ forwardPrevious' = forwardCurrent
                         /\ forwardCurrent' = forwardNext
                         /\ forwardMoved' = TRUE
                         /\ IF forwardNext.id = endNode.id
                              THEN /\ result' = forwardReachedEnd(fPath)
                                   /\ pc' = "done"
                              ELSE /\ pc' = "backward"
                                   /\ UNCHANGED result
               /\ UNCHANGED <<backwardPath, backwardVisited, backwardCurrent,
                              backwardPrevious>>
  /\ UNCHANGED <<inputs, embedding, calls, callers, startNode, endNode, backwardMoved>>

\* the backward half of a pass
BackwardStep ==
  /\ pc = "backward"
  /\ LET backwardNext ==
           nextHop(backwardCurrent, startNode, backwardVisited,
                   backwardPrevious)
         bPath == Append(backwardPath, backwardNext)
     IN IF backwardNext = Null
          THEN /\ backwardMoved' = FALSE
               /\ pc' = "check"
               /\ UNCHANGED <<walks, result>>
          ELSE /\ backwardPath' = bPath
               /\ backwardVisited' = backwardVisited \cup {backwardNext.id}
               /\ IF meets(backwardNext, forwardVisited)
                    THEN /\ result' = backwardMeeting(bPath, backwardNext)
                         /\ pc' = "done"
                         /\ backwardMoved' = FALSE
                         /\ UNCHANGED <<backwardPrevious, backwardCurrent>>
                    ELSE /\ backwardPrevious' = backwardCurrent
                         /\ backwardCurrent' = backwardNext
                         /\ backwardMoved' = TRUE
                         /\ IF backwardNext.id = startNode.id
                              THEN /\ result' = backwardReachedStart(bPath)
                                   /\ pc' = "done"
                              ELSE /\ pc' = "check"
                                   /\ UNCHANGED result
               /\ UNCHANGED <<forwardPath, forwardVisited, forwardCurrent,
                              forwardPrevious>>
  /\ UNCHANGED <<inputs, embedding, calls, callers, startNode, endNode, forwardMoved, iterations>>

\* StallCheck that gives up as soon as one of the two walks did not move
StallCheckEither ==
  /\ pc = "check"
  /\ IF ~ forwardMoved \/ ~ backwardMoved
       THEN /\ result' = stallResult
            /\ pc' = "done"
       ELSE /\ pc' = "forward"
            /\ UNCHANGED result
  /\ UNCHANGED <<inputs, embedding, calls, callers, walks, startNode, endNode, forwardMoved,
                 backwardMoved, iterations>>

\* the end of a pass: the stall return, or the next pass
StallCheck ==
  /\ pc = "check"
  /\ IF ~ forwardMoved /\ ~ backwardMoved
       THEN /\ result' = stallResult
            /\ pc' = "done"
       ELSE /\ pc' = "forward"
            /\ UNCHANGED result
  /\ UNCHANGED <<inputs, embedding, calls, callers, walks, startNode, endNode, forwardMoved,
                 backwardMoved, iterations>>

\* node ids are interchangeable and Init takes every insertion order of
\* every edge set, so the start is named 1 and the end 1 or 2
Next ==
  \/ \E e \in {1, 2} : Call(nodeMap[1], nodeMap[e])
  \/ ForwardStep
  \/ BackwardStep
  \/ StallCheck

Spec == Init /\ [][Next]_vars

\* several calls over one embedding, one after the other: the embeddings of
\* at most three nodes, the calls between the nodes 1 and 2 in both
\* directions and from each to itself
QueryInit ==
  /\ Init
  /\ Cardinality(DOMAIN nodeMap) <= 3

\* the effect that calls the router has its result; the next call starts
\* with locals of its own
Requery ==
  /\ pc = "done"
  /\ LET query == <<startNode.id, endNode.id>>
     IN answers' = [q \in DOMAIN answers \cup {query} |->
                      IF q \in DOMAIN answers THEN answers[q] ELSE result]
  /\ startNode' = Null
  /\ endNode' = Null
  /\ forwardPath' = <<>>
  /\ backwardPath' = <<>>
  /\ forwardVisited' = {}
  /\ backwardVisited' = {}
  /\ forwardCurrent' = Null
  /\ backwardCurrent' = Null
  /\ forwardPrevious' = Null
  /\ backwardPrevious' = Null
  /\ forwardMoved' = FALSE
  /\ backwardMoved' = FALSE
  /\ iterations' = 0
  /\ pc' = "idle"
  /\ result' = NoResult
  /\ UNCHANGED <<inputs, embedding, calls, worker, app>>

QueryNext ==
  \/ \E s, e \in {1, 2} : Call(nodeMap[s], nodeMap[e])
  \/ ForwardStep
  \/ BackwardStep
  \/ StallCheck
  \/ Requery

QuerySpec == QueryInit /\ [][QueryNext]_vars

\* ------------------------------------------------------------ properties
Returned == pc = "done"
Succeeded == pc = "done" /\ result.success
DistinctEnds == startNode.id # endNode.id

IsEdge(u, v) ==
  u \in DOMAIN adjacency /\ \E i \in 1..Len(adjacency[u]) : adjacency[u][i] = v

\* the ids joined to the ids of S by edges, in either direction
RECURSIVE component(_)
component(S) ==
  LET T == S \cup {v \in Ids : \E u \in S : IsEdge(u, v) \/ IsEdge(v, u)}
  IN IF T = S THEN S ELSE component(T)

\* the call returned from the forward half: the pushed node is not made current
ForwardMet ==
  /\ Succeeded /\ DistinctEnds
  /\ forwardPath[Len(forwardPath)].id # forwardCurrent.id

\* the call returned from the backward half
BackwardMet ==
  /\ Succeeded /\ DistinctEnds
  /\ backwardPath[Len(backwardPath)].id # backwardCurrent.id

DistGE(a, b) == ~ DistLess(a, b)
StretchAtLeastOne(st) ==
  \/ st.kind \in {"one", "inf"}
  \/ st.kind = "ratio" /\ DistGE(st.num, st.den)

\* C1: on success between distinct nodes, the first element of path is start
\* and the last element is end
RouterEndpoints ==
  (Succeeded /\ DistinctEnds) =>
    /\ Len(result.path) >= 1
    /\ result.path[1] = startNode
    /\ result.path[Len(result.path)] = endNode

\* the forward walk met the backward walk away from its first node, so the
\* path continues past the meeting node along the reversed backward walk
RouterEndpointsWitness ==
  ForwardMet /\ Len(result.path) > Len(result.forwardPath)

\* C2: on success, the node ids of path are pairwise distinct
RouterSimplicity ==
  Succeeded =>
    \A i, j \in 1..Len(result.path) :
      i # j => result.path[i].id # result.path[j].id

\* the backward walk landed on a node the forward walk had walked past
RouterSimplicityWitness ==
  BackwardMet /\ Len(result.forwardPath) < Len(forwardPath)

\* C3: on success over the symmetric adjacency, every consecutive pair of
\* path is an edge
RouterAdjacency ==
  (Succeeded /\ \A u, v \in Ids : IsEdge(u, v) <=> IsEdge(v, u)) =>
    \A i \in 1..(Len(result.path) - 1) :
      IsEdge(result.path[i].id, result.path[i + 1].id)

\* a path of four nodes joined where the forward walk met the backward walk
RouterAdjacencyWitness ==
  /\ ForwardMet
  /\ Len(result.path) = 4
  /\ Len(result.forwardPath) = 3

\* C4: over a graph of N nodes a call never starts more than N passes of
\* the loop
LoopBound == iterations <= Cardinality(DOMAIN nodeMap)

\* a call over NumNodes nodes that returned in its pass NumNodes - 1
LoopBoundWitness ==
  /\ Returned
  /\ Cardinality(DOMAIN nodeMap) = NumNodes
  /\ iterations = NumNodes - 1

\* C5: the stall result (success = false, empty path, distance and stretch
\* +Infinity) is returned at the end of exactly those passes in which neither
\* walk moved, and no other return has success = false
StallIsValue ==
  [][/\ (pc = "check" /\ ~ forwardMoved /\ ~ backwardMoved) =>
          (pc' = "done" /\ result' = stallResult)
     /\ (pc # "done" /\ pc' = "done" /\ ~ result'.success) =>
          /\ pc = "check" /\ ~ forwardMoved /\ ~ backwardMoved
          /\ result'.path = <<>>
          /\ result'.distance = Infinity
          /\ result'.stretch = StretchInfinity
     /\ (pc = "check" /\ (forwardMoved \/ backwardMoved)) => pc' = "forward"
    ]_vars

\* a stall between two nodes of one component, after both walks had moved
StallIsValueWitness ==
  /\ Returned /\ ~ result.success
  /\ endNode.id \in component({startNode.id})
  /\ Len(forwardPath) >= 2 /\ Len(backwardPath) >= 2

\* C6: routing a node to itself returns success, the path [start], distance
\* 0, stretch 1 and pathLength 0, whatever the adjacency holds
IdentityRouting ==
  (Returned /\ ~ DistinctEnds) =>
    /\ result.success
    /\ result.path = <<startNode>>
    /\ result.distance = Zero
    /\ result.stretch = One
    /\ result.pathLength = 0
    /\ forwardPath = <<>> /\ backwardPath = <<>>

\* a node routed to itself that has neighbours
IdentityRoutingWitness ==
  /\ Returned /\ ~ DistinctEnds
  /\ startNode.id \in DOMAIN adjacency

\* C7: between nodes of different components the call returns
\* success = false
DisconnectedFails ==
  (Returned /\ endNode.id \notin component({startNode.id})) =>
    ~ result.success

\* both walks moved inside their own components before the stall
DisconnectedFailsWitness ==
  /\ Returned
  /\ endNode.id \notin component({startNode.id})
  /\ Len(forwardPath) >= 2 /\ Len(backwardPath) >= 2

MeetingNodeOnPath ==
  Succeeded =>
    \E i \in 1..Len(result.path) : result.path[i] = result.meetingNode

\* the backward walk landed on a forward node that is neither start nor end
MeetingNodeOnPathWitness ==
  /\ BackwardMet
  /\ result.meetingNode.id \notin {startNode.id, endNode.id}

\* C10: on success between distinct nodes, distance is at least
\* d(start, end) and stretch is at least 1
StretchBound ==
  (Succeeded /\ DistinctEnds) =>
    /\ DistGE(result.distance, hyperbolicDistance(startNode, endNode))
    /\ StretchAtLeastOne(result.stretch)

\* C17: a call with a start or end node whose id is not in the adjacency
\* (the node index of the embedding) surfaces a NodeNotInEmbedding error
\* and returns no ordinary RoutingResult, neither a success nor a stall
NodeNotInEmbeddingSurfaced ==
  (/\ Returned
   /\ DistinctEnds
   /\ startNode.id \notin DOMAIN adjacency \/ endNode.id \notin DOMAIN adjacency)
    => result.success \notin BOOLEAN

\* C23: each hop of either walk goes to the neighbour of the current node
\* that is closest to the walk's target among the neighbours that are
\* neither visited by that walk nor its immediate predecessor, the first in
\* the order of the adjacency set when several are closest; without such a
\* neighbour the walk does not move in that pass
hopPolicy(current, target, visited, previous, path, pathAfter) ==
  LET ids == IF current.id \in DOMAIN adjacency
               THEN adjacency[current.id] ELSE <<>>
      candidates ==
        {i \in 1..Len(ids) :
           /\ ids[i] \in DOMAIN nodeMap
           /\ ids[i] \notin visited
           /\ previous = Null \/ ids[i] # previous.id}
      d(i) == hyperbolicDistance(nodeMap[ids[i]], target)
  IN IF candidates = {} THEN pathAfter = path
     ELSE \E i \in candidates :
            /\ pathAfter = Append(path, nodeMap[ids[i]])
            /\ \A j \in candidates :
                 /\ j < i => DistLess(d(i), d(j))
                 /\ j > i => ~ DistLess(d(j), d(i))

HopPolicy ==
  [][/\ pc = "forward" =>
          hopPolicy(forwardCurrent, endNode, forwardVisited, forwardPrevious,
                    forwardPath, forwardPath')
     /\ pc = "backward" =>
          hopPolicy(backwardCurrent, startNode, backwardVisited,
                    backwardPrevious, backwardPath, backwardPath')
    ]_vars

\* the first forward hop chose between two closest neighbours of the start
\* and took the one that comes first in the adjacency set, and the backward
\* walk found no neighbour to go to in the first pass
HopPolicyWitness ==
  /\ DistinctEnds
  /\ pc = "check"
  /\ iterations = 1
  /\ Len(forwardPath) = 2
  /\ Len(backwardPath) = 1
  /\ \E i, j \in 1..Len(adjacency[startNode.id]) :
       /\ i < j
       /\ forwardPath[2].id = adjacency[startNode.id][i]
       /\ hyperbolicDistance(nodeMap[adjacency[startNode.id][j]], endNode)
            = hyperbolicDistance(forwardPath[2], endNode)

\* C27: the forward and the backward visited sets are disjoint at the start
\* of every pass of the loop: as soon as a hop lands on a node the other walk
\* visited, the call has returned
VisitedDisjoint ==
  (DistinctEnds /\ pc # "done") => forwardVisited \cap backwardVisited = {}

\* a call that returned in its second pass or later because a hop landed on
\* a node of the other walk
VisitedDisjointWitness ==
  /\ Succeeded /\ DistinctEnds
  /\ iterations >= 2
  /\ forwardVisited \cap backwardVisited # {}

\* C28: on success between distinct nodes forwardPath runs from start to
\* meetingNode, backwardPath from end to meetingNode, and path is
\* forwardPath followed by the reverse of backwardPath without its last
\* element; the returns for a forward walk that reached end and for a
\* backward walk that reached start are never taken
ResultShape ==
  (Succeeded /\ DistinctEnds) =>
    LET f == result.forwardPath
        b == result.backwardPath
    IN /\ f # <<>> /\ b # <<>>
       /\ f[1] = startNode /\ f[Len(f)].id = result.meetingNode.id
       /\ b[1] = endNode /\ b[Len(b)].id = result.meetingNode.id
       /\ result.path = f \o reverse(slice(b, 0, -1))
       /\ ForwardMet \/ BackwardMet

\* the forward walk landed on a node the backward walk had walked past, so
\* that the backward path returned is shorter than the backward walk
ResultShapeWitness ==
  /\ ForwardMet
  /\ Len(result.backwardPath) < Len(backwardPath)
  /\ Len(result.forwardPath) >= 3

\* C22: no step of a call changes the adjacency map or the node map, and
\* among several calls over one embedding, made in any order, a call
\* returns the result the same call returned before
QueriesIndependent ==
  [][/\ adjacency' = adjacency
     /\ nodeMap' = nodeMap
     /\ (pc' = "done" /\ <<startNode'.id, endNode'.id>> \in DOMAIN answers')
          => result' = answers'[<<startNode'.id, endNode'.id>>]
    ]_vars

\* a successful call between distinct nodes that was made before, returning
\* after three other calls
QueriesIndependentWitness ==
  /\ Succeeded /\ DistinctEnds
  /\ Len(result.path) >= 3
  /\ <<startNode.id, endNode.id>> \in DOMAIN answers
  /\ Cardinality(DOMAIN answers) = 4

\* C26: whenever greedyRouting(start, end) returns a path, the call of
\* bidirectionalGreedyRouting(start, end) over the same maps returns
\* success = true
GreedyImpliesBidirectional ==
  (Returned /\ greedyRouting(startNode, endNode) # <<>>) => result.success

\* the one-directional walk needs two hops or more, and the two walks met
\* on another path
GreedyImpliesBidirectionalWitness ==
  /\ Succeeded /\ DistinctEnds
  /\ Len(greedyRouting(startNode, endNode)) >= 3
  /\ result.path # greedyRouting(startNode, endNode)

\* =========================================================== embedding
\* src/visualization/src/embedding.worker.ts (the embedding module) and its
\* other copy src/unnamed/part_001

\* node names
GraphIds == 1..3
\* the numbers of rows of the edge list handed to buildGraph
GraphRows == 0..3
\* every list of rows, rows with source = target and repeated rows included
EdgeInputs == UNION {[1..n -> GraphIds \X GraphIds] : n \in GraphRows}

\* Set.has, Set.add of a Set kept in insertion order; Map.has / Map.set of
\* a new empty Set
setHas(set, m) == \E i \in 1..Len(set) : set[i] = m
setAdd(set, m) == IF setHas(set, m) THEN set ELSE Append(set, m)
setNew(map, key) ==
  IF key \in DOMAIN map THEN map
  ELSE [x \in DOMAIN map \cup {key} |-> IF x = key THEN <<>> ELSE map[x]]

\* the body of the loop of buildGraph without adjacency.get(target).add(source)
addEdgeOneWay(g, source, target) ==
  LET a1 == setNew(g.adjacency, source)
      a2 == setNew(a1, target)
  IN [nodeSet |-> setAdd(setAdd(g.nodeSet, source), target),
      adjacency |-> [a2 EXCEPT ![source] = setAdd(@, target)]]

\* the body of the loop of buildGraph
addEdge(g, source, target) ==
  LET a1 == setNew(g.adjacency, source)
      a2 == setNew(a1, target)
      a3 == [a2 EXCEPT ![source] = setAdd(@, target)]
      a4 == [a3 EXCEPT ![target] = setAdd(@, source)]
  IN [nodeSet |-> setAdd(setAdd(g.nodeSet, source), target),
      adjacency |-> a4]

RECURSIVE addAll(_, _)
addAll(g, es) ==
  IF es = <<>> THEN g ELSE addAll(addEdge(g, es[1][1], es[1][2]), Tail(es))

\* adjacency.get(node)?.size || 0
sizeOf(map, node) == IF node \in DOMAIN map THEN Len(map[node]) ELSE 0

buildGraph(es) ==
  LET g == addAll([nodeSet |-> <<>>, adjacency |-> <<>>], es)
  IN [nodes |-> g.nodeSet,
      adjacency |-> g.adjacency,
      degrees |-> [n \in {g.nodeSet[i] : i \in 1..Len(g.nodeSet)} |->
                     sizeOf(g.adjacency, n)]]

\* ------------------------------------------------------ IEEE numbers
\* A number is the rational <<p, q>> in lowest terms with q > 0, or
\* +Infinity <<1, 0>>, -Infinity <<-1, 0>>, or NaN <<0, 0>>.
Sign(x) == IF x > 0 THEN 1 ELSE IF x < 0 THEN -1 ELSE 0
Num(n) == <<n, 1>>
fFinite(p, q) == IF q < 0 THEN Rat(-p, -q) ELSE Rat(p, q)
fMul(a, b) ==
  IF a = NaN \/ b = NaN THEN NaN
  ELSE LET p == a[1] * b[1]
           q == a[2] * b[2]
       IN IF q = 0 THEN <<Sign(p), 0>> ELSE fFinite(p, q)
\* 1 / b, with 1 / 0 = +Infinity
fInv(b) ==
  IF b = NaN THEN NaN
  ELSE IF b[1] < 0 THEN <<-b[2], -b[1]>> ELSE <<b[2], b[1]>>
fDiv(a, b) == fMul(a, fInv(b))
fAdd(a, b) ==
  IF a = NaN \/ b = NaN THEN NaN
  ELSE IF a[2] = 0 \/ b[2] = 0
         THEN (IF a[2] = 0 /\ b[2] = 0 /\ a # b THEN NaN
               ELSE IF a[2] = 0 THEN a ELSE b)
         ELSE fFinite(a[1] * b[2] + b[1] * a[2], a[2] * b[2])
fSub(a, b) == fAdd(a, fMul(Num(-1), b))
\* a < b; false when either is NaN
fLess(a, b) == a # NaN /\ b # NaN /\ a[1] * b[2] < b[1] * a[2]
fMax(a, b) == IF a = NaN \/ b = NaN THEN NaN ELSE IF fLess(a, b) THEN b ELSE a
fMin(a, b) == IF a = NaN \/ b = NaN THEN NaN ELSE IF fLess(b, a) THEN b ELSE a

\* Math.log(k) in thousandths for the degrees of the model; Math.log(k / kMin)
\* is taken as the difference
LnMilli == <<0, 693, 1099, 1386, 1609>>

\* ----------------------------------------------------------- estimators
\* the two copies of the module: embedding.worker.ts and part_001
Copies == {"visualization", "unnamed"}

\* Array.prototype.sort((a, b) => key(b) - key(a)): stable, descending
sortDescending(arr, key) ==
  LET n == Len(arr)
      rank(i) == Cardinality({j \in 1..n :
                   \/ key[arr[j]] > key[arr[i]]
                   \/ key[arr[j]] = key[arr[i]] /\ j < i}) + 1
  IN [p \in 1..n |-> arr[CHOOSE i \in 1..n : rank(i) = p]]

RECURSIVE sumSeq(_)
sumSeq(arr) == IF arr = <<>> THEN 0 ELSE arr[1] + sumSeq(Tail(arr))

\* the floor of the clamp of estimateGamma: 2.01, and 1.5 in part_001
gammaFloor(c) == IF c = "visualization" THEN fFinite(201, 100) ELSE fFinite(3, 2)

estimateGamma(degreeValues, c) ==
  LET positive == SelectSeq(degreeValues, LAMBDA d : d > 0)
      sortedDegrees == sortDescending(positive, [d \in 0..Len(LnMilli) |-> d])
      tailSize == Len(sortedDegrees) \div 5
      tail == slice(sortedDegrees, 0, Max(tailSize, 10))
      n == Len(tail)
      \* tail[tail.length - 1]; undefined on an empty tail, never read then
      kMin == IF n = 0 THEN 1 ELSE tail[n]
      sumLogRatio ==
        fFinite(sumSeq([i \in 1..n |-> LnMilli[tail[i]] - LnMilli[kMin]]), 1000)
      gamma == fAdd(Num(1), fDiv(Num(n), sumLogRatio))
  IN fMax(gammaFloor(c), fMin(gamma, Num(4)))

\* the pairs i < j of the neighbours of node that are themselves adjacent
trianglesAt(adj, node) ==
  LET neighborArray == adj[node]
      m == Len(neighborArray)
  IN Cardinality({pr \in (1..m) \X (1..m) :
       /\ pr[1] < pr[2]
       /\ neighborArray[pr[1]] \in DOMAIN adj
       /\ setHas(adj[neighborArray[pr[1]]], neighborArray[pr[2]])})

RECURSIVE clusteringSum(_, _, _)
\* <<totalClustering, count>> after the loop over sampleNodes
clusteringSum(sampleNodes, adj, acc) ==
  IF sampleNodes = <<>> THEN acc
  ELSE LET node == sampleNodes[1]
           m == sizeOf(adj, node)
           possibleTriangles == (m * (m - 1)) \div 2
           next ==
             IF m < 2 THEN acc
             ELSE <<fAdd(acc[1], fFinite(trianglesAt(adj, node),
                                          possibleTriangles)),
                    acc[2] + 1>>
       IN clusteringSum(Tail(sampleNodes), adj, next)

\* estimateClustering without the count > 0 test
estimateClusteringUnguarded(ns, adj) ==
  LET acc == clusteringSum(ns, adj, <<Num(0), 0>>)
  IN fDiv(acc[1], Num(acc[2]))

estimateClustering(ns, adj) ==
  LET acc == clusteringSum(ns, adj, <<Num(0), 0>>)
  IN IF acc[2] > 0 THEN fDiv(acc[1], Num(acc[2])) ELSE Num(0)

estimateBeta(clustering) == fAdd(Num(1), fMul(fFinite(7, 4), clustering))

\* R = 2 ln(N / (pi mu kappa0^2)) with mu = beta / (2 pi kBar sin(pi / beta)):
\* NaN when an argument is NaN, and otherwise the finite number these
\* arguments determine, kept as the term (sin(pi / beta) > 0 for every beta
\* in [1, 2.75], Math.sin(Math.PI) being 1.2e-16)
radiusOf(N, kBar, beta, kappa0) ==
  IF kBar = NaN \/ beta = NaN \/ kappa0 = NaN THEN NaN
  ELSE <<"R", N, kBar, beta, kappa0>>

\* lines 374-384 of embedNetwork
statsOf(ns, adj, degs, c) ==
  LET N == Len(ns)
      degreeValues == [i \in 1..N |-> degs[ns[i]]]
      kBar == fDiv(Num(sumSeq(degreeValues)), Num(N))
      gamma == estimateGamma(degreeValues, c)
      clustering == estimateClustering(ns, adj)
      beta == estimateBeta(clustering)
      kappa0 == fDiv(fMul(kBar, fSub(gamma, Num(2))), fSub(gamma, Num(1)))
  IN [N |-> N, kBar |-> kBar, gamma |-> gamma, beta |-> beta,
      clustering |-> clustering, R |-> radiusOf(N, kBar, beta, kappa0),
      kappa0 |-> kappa0]

\* no routing runs while the embedding is observed
RouterOff ==
  /\ adjacency = <<>>
  /\ nodeMap = <<>>
  /\ startNode = Null
  /\ endNode = Null
  /\ forwardPath = <<>>
  /\ backwardPath = <<>>
  /\ forwardVisited = {}
  /\ backwardVisited = {}
  /\ forwardCurrent = Null
  /\ backwardCurrent = Null
  /\ forwardPrevious = Null
  /\ backwardPrevious = Null
  /\ forwardMoved = FALSE
  /\ backwardMoved = FALSE
  /\ iterations = 0
  /\ pc = "idle"
  /\ result = NoResult

\* buildGraph and the estimators on every list of rows
GraphInit ==
  /\ RouterOff
  /\ CallsOff
  /\ CallersOff
  /\ edges \in EdgeInputs
  /\ nodes = <<>>
  /\ stringAdjacency = <<>>
  /\ degrees = <<>>
  /\ copy \in Copies
  /\ stats = <<>>
  /\ sortedNodes = <<>>
  /\ thetas = <<>>
  /\ round = 0
  /\ cursor = 0
  /\ emitted = <<>>
  /\ epc = "parsed"
  /\ lastRun = <<>>
  /\ writes = <<>>

\* the four edges of a cycle of four nodes, in two orders of the rows: the
\* two nodes placed in phase 2 are neighbours of each other
CycleInputs ==
  {<<<<1, 2>>, <<1, 3>>, <<2, 4>>, <<3, 4>>>>,
   <<<<3, 4>>, <<4, 2>>, <<1, 3>>, <<2, 1>>>>}

\* the lists embedNetwork is followed on to its return: up to two rows,
\* three rows that are the three edges of a triangle, and the cycles
EmbedInputs ==
  {l \in EdgeInputs :
     \/ Len(l) <= 2
     \/ Cardinality({{l[i][1], l[i][2]} : i \in 1..Len(l)} \cap
                     {{1, 2}, {2, 3}, {1, 3}}) = 3}
    \cup CycleInputs

\* embedNetwork entered, its csv parsed
EmbedInit ==
  /\ RouterOff
  /\ CallsOff
  /\ CallersOff
  /\ edges \in EmbedInputs
  /\ nodes = <<>>
  /\ stringAdjacency = <<>>
  /\ degrees = <<>>
  /\ copy \in Copies
  /\ stats = <<>>
  /\ sortedNodes = <<>>
  /\ thetas = <<>>
  /\ round = 0
  /\ cursor = 0
  /\ emitted = <<>>
  /\ epc = "parsed"
  /\ lastRun = <<>>
  /\ writes = <<>>

\* const { nodes, adjacency: stringAdjacency, degrees } = buildGraph(edges)
BuildGraph ==
  /\ epc = "parsed"
  /\ LET g == buildGraph(edges)
     IN /\ nodes' = g.nodes
        /\ stringAdjacency' = g.adjacency
        /\ degrees' = g.degrees
  /\ epc' = "built"
  /\ UNCHANGED <<router, calls, callers, lastRun, writes, edges, copy,
                 stats, sortedNodes, thetas, round, cursor, emitted>>

EstimateStats ==
  /\ epc = "built"
  /\ stats' = statsOf(nodes, stringAdjacency, degrees, copy)
  /\ epc' = "stats"
  /\ UNCHANGED <<router, calls, callers, lastRun, writes, graph,
                 sortedNodes, thetas, round, cursor, emitted>>

\* const sortedNodes = [...nodes].sort(...)
SortNodes ==
  /\ epc = "stats"
  /\ sortedNodes' = sortDescending(nodes, degrees)
  /\ epc' = "sorted"
  /\ UNCHANGED <<router, calls, callers, lastRun, writes, graph, stats,
                 thetas, round, cursor, emitted>>

\* ---------------------------------------------------------------- angles
\* An angle is an integer number of units of pi / HalfTurn, so that the
\* clamp of a step of the ascent, 0.1 rad, is one unit.
HalfTurn == 33
\* the clamped steps of one iteration of the ascent, in units
Steps == {-1, 0, 1}
\* the iterations one ascent is followed for (maxIterations is 100)
AscentIterations == 1..1
\* the rounds of phase 1 that are followed (rounds is 6)
Rounds == 2
\* Math.min(500, N), Math.min(100, N) in part_001: the model keeps one
\* node less than the names it has, so that both phases run
Phase1Max == Cardinality(GraphIds) - 1
\* the values of Math.random() * 2 * Math.PI - Math.PI that are followed:
\* the lower end -pi, the middle, and the last unit below +pi
Randoms == {-HalfTurn, 0, HalfTurn - 1}
\* the value of a Map entry that was never set
Unset == 4 * HalfTurn

\* the remainder of JavaScript: the sign of the dividend
jsRem(a, m) == IF a >= 0 THEN a % m ELSE -((-a) % m)

\* normalizeAngle with normalized < -Math.PI as its second test
normalizeAngleStrict(theta) ==
  LET normalized == jsRem(theta, 2 * HalfTurn)
  IN IF normalized > HalfTurn THEN normalized - 2 * HalfTurn
     ELSE IF normalized < -HalfTurn THEN normalized + 2 * HalfTurn
     ELSE normalized

\* normalizeAngle on angles of which pi is half units
normalizeAngleOn(half, theta) ==
  LET normalized == jsRem(theta, 2 * half)
  IN IF normalized > half THEN normalized - 2 * half
     ELSE IF normalized <= -half THEN normalized + 2 * half
     ELSE normalized

normalizeAngle(theta) == normalizeAngleOn(HalfTurn, theta)

phase1CountOf(N) == Min(Phase1Max, N)

\* thetas after lines 415-420: the anchors spread over the circle from
\* -pi, the others random; part_001 sets the anchors only
initialThetas(c, N, rnd) ==
  LET phase1Count == phase1CountOf(N)
  IN [i \in 1..N |->
        IF i <= phase1Count
          THEN -HalfTurn + (2 * HalfTurn * (i - 1)) \div phase1Count
          ELSE IF c = "visualization" THEN rnd[i] ELSE Unset]

\* the thetas optimizeThetaGradientDescentFast can return from theta: the
\* first iteration always replaces bestTheta (bestLogL is -Infinity and the
\* local log-likelihood is finite), a later one may
RECURSIVE ascentFrom(_, _)
ascentFrom(theta, iters) ==
  LET after == {normalizeAngle(theta + step) : step \in Steps}
  IN IF iters <= 1 THEN after
     ELSE after \cup UNION {ascentFrom(t, iters - 1) : t \in after}

\* optimizeThetaGradientDescent of part_001 runs a second ascent from the
\* opposite of where the first one ended and returns the end of either
optimizeTheta(c, theta) ==
  LET first == UNION {ascentFrom(theta, n) : n \in AscentIterations}
      second == UNION {ascentFrom(normalizeAngle(t + HalfTurn), n) :
                         t \in first, n \in AscentIterations}
  IN IF c = "visualization" THEN first ELSE first \cup second

\* Math.atan2(sumSin, sumCos) over the angles ts: the angle itself when
\* they are all the same, 0 when there is none, and otherwise a value of
\* [-pi, pi], followed at its ends and its middle
atan2Of(ts) ==
  IF ts = <<>> THEN {0}
  ELSE IF \A i \in 1..Len(ts) : ts[i] = ts[1] THEN {ts[1]}
  ELSE {-HalfTurn, 0, HalfTurn}

\* nodeToIndex.get(id), 1-based
indexOf(sorted, id) == CHOOSE i \in 1..Len(sorted) : sorted[i] = id

\* the neighbours of the node at sorted index i, as sorted indices
adjSetOf(sorted, adj, i) ==
  [j \in 1..Len(adj[sorted[i]]) |-> indexOf(sorted, adj[sorted[i]][j])]

\* computeThetaCircularMeanFast; computeThetaCircularMean of part_001 skips
\* the neighbours whose angle is not set
circularMean(c, neighbors, ths) ==
  LET read == [j \in 1..Len(neighbors) |-> ths[neighbors[j]]]
      used == IF c = "visualization" THEN read
              ELSE SelectSeq(read, LAMBDA t : t # Unset)
  IN IF neighbors = <<>> THEN {normalizeAngle(r) : r \in Randoms}
     ELSE {normalizeAngle(m) : m \in atan2Of(used)}

\* lines 413-420
InitThetas ==
  /\ epc = "sorted"
  /\ \E rnd \in [1..Len(sortedNodes) -> Randoms] :
       thetas' = initialThetas(copy, Len(sortedNodes), rnd)
  /\ round' = 0
  /\ cursor' = 0
  /\ epc' = "phase1"
  /\ UNCHANGED <<router, calls, callers, lastRun, writes, graph, stats,
                 sortedNodes, emitted>>

\* one pass of the inner loop of phase 1, lines 424-435
Optimize ==
  /\ epc = "phase1"
  /\ round < Rounds
  /\ cursor < phase1CountOf(Len(sortedNodes))
  /\ \E t \in optimizeTheta(copy, thetas[cursor + 1]) :
       thetas' = [thetas EXCEPT ![cursor + 1] = t]
  /\ IF cursor + 1 < phase1CountOf(Len(sortedNodes))
       THEN cursor' = cursor + 1 /\ round' = round
       ELSE cursor' = 0 /\ round' = round + 1
  /\ UNCHANGED <<router, calls, callers, lastRun, writes, graph, stats,
                 sortedNodes, emitted, epc>>

\* EndPhase1 with let processed = 0
EndPhase1FromZero ==
  /\ epc = "phase1"
  /\ round >= Rounds \/ phase1CountOf(Len(sortedNodes)) = 0
  /\ cursor' = 0
  /\ epc' = "phase2"
  /\ UNCHANGED <<router, calls, callers, lastRun, writes, graph, stats,
                 sortedNodes, thetas, round, emitted>>

\* the end of the rounds: let processed = phase1Count
EndPhase1 ==
  /\ epc = "phase1"
  /\ round >= Rounds \/ phase1CountOf(Len(sortedNodes)) = 0
  /\ cursor' = phase1CountOf(Len(sortedNodes))
  /\ epc' = "phase2"
  /\ UNCHANGED <<router, calls, callers, lastRun, writes, graph, stats,
                 sortedNodes, thetas, round, emitted>>

\* one pass of the inner loop of phase 2, lines 443-445
Place ==
  /\ epc = "phase2"
  /\ cursor < Len(sortedNodes)
  /\ \E t \in circularMean(copy,
                           adjSetOf(sortedNodes, stringAdjacency, cursor + 1),
                           thetas) :
       thetas' = [thetas EXCEPT ![cursor + 1] = t]
  /\ writes' = Append(writes, cursor + 1)
  /\ cursor' = cursor + 1
  /\ UNCHANGED <<router, calls, callers, lastRun, graph, stats, sortedNodes,
                 round, emitted, epc>>

\* emittedOrder by descending angle
emittedOrderByAngle(c, ns, sorted) ==
  sortDescending(sorted, [id \in {sorted[i] : i \in 1..Len(sorted)} |->
                            thetas[indexOf(sorted, id)]])

\* the result array: sortedNodes.map(...), and nodes.map(...) in part_001
emittedOrder(c, ns, sorted) == IF c = "visualization" THEN sorted ELSE ns

\* Math.max(kappa0, degree - gamma / beta)
computeKappa(degree, gamma, beta, kBar) ==
  LET kappa0 == fDiv(fMul(kBar, fSub(gamma, Num(2))), fSub(gamma, Num(1)))
      kappaEstimate == fSub(Num(degree), fDiv(gamma, beta))
  IN fMax(kappa0, kappaEstimate)

\* R - 2 * Math.log(kappa / kappa0): NaN when an argument is NaN, and
\* otherwise the number these arguments determine, kept as the term
kappaToR(kappa, kappa0, R) ==
  IF kappa = NaN \/ kappa0 = NaN \/ R = NaN THEN NaN
  ELSE <<"r", R, kappa, kappa0>>

Emit ==
  /\ epc = "phase2"
  /\ cursor >= Len(sortedNodes)
  /\ LET order == emittedOrder(copy, nodes, sortedNodes)
         kappaOf(id) ==
           computeKappa(degrees[id], stats.gamma, stats.beta, stats.kBar)
     IN emitted' = [i \in 1..Len(order) |->
                      [id |-> order[i],
                       r |-> kappaToR(kappaOf(order[i]), stats.kappa0, stats.R),
                       theta |-> thetas[indexOf(sortedNodes, order[i])],
                       degree |-> degrees[order[i]],
                       kappa |-> kappaOf(order[i])]]
  /\ epc' = "returned"
  /\ UNCHANGED <<router, calls, callers, lastRun, writes, graph, stats,
                 sortedNodes, thetas, round, cursor>>

EmbedNext ==
  \/ BuildGraph
  \/ EstimateStats
  \/ SortNodes
  \/ InitThetas
  \/ Optimize
  \/ EndPhase1
  \/ Place
  \/ Emit

EmbedSpec == EmbedInit /\ [][EmbedNext]_vars

\* what two runs on one csv are compared by: the stats, and the nodes in
\* the order they are emitted in, each with its kappa, r and degree; of the
\* angles the last one is kept
outcome(st, em) ==
  [stats |-> st,
   nodes |-> [i \in 1..Len(em) |->
                [id |-> em[i].id, kappa |-> em[i].kappa, r |-> em[i].r,
                 degree |-> em[i].degree]],
   theta |-> IF em = <<>> THEN 0 ELSE em[Len(em)].theta]

\* embedNetwork is called again on the csv it has just returned from
Rerun ==
  /\ epc = "returned"
  /\ lastRun = <<>>
  /\ lastRun' = outcome(stats, emitted)
  /\ nodes' = <<>>
  /\ stringAdjacency' = <<>>
  /\ degrees' = <<>>
  /\ stats' = <<>>
  /\ sortedNodes' = <<>>
  /\ thetas' = <<>>
  /\ round' = 0
  /\ cursor' = 0
  /\ emitted' = <<>>
  /\ writes' = <<>>
  /\ epc' = "parsed"
  /\ UNCHANGED <<router, calls, callers, edges, copy>>

RerunNext ==
  \/ EmbedNext
  \/ Rerun

\* the lists two runs are followed on: at most one row, the row 1,2
\* followed by a row that joins two distinct nodes, and the cycles
RerunInit ==
  /\ EmbedInit
  /\ \/ Len(edges) <= 1
     \/ Len(edges) = 2 /\ edges[1] = <<1, 2>> /\ edges[2][1] # edges[2][2]
     \/ edges \in CycleInputs

RerunSpec == RerunInit /\ [][RerunNext]_vars

GraphNext ==
  \/ BuildGraph
  \/ EstimateStats
  \/ SortNodes

GraphSpec == GraphInit /\ [][GraphNext]_vars

\* ------------------------------------ optimizeThetaGradientDescentFast
\* One call, with one other active node.  Angles are integers in units of
\* 6.25e-9 rad, the gradient in units of 1e-4 and learningRate in units of
\* 1/16000, so that learningRate * gradient is an integer number of angle
\* units.
FinePi == 502654825
\* 0.1 rad, the clamp of a step
StepClamp == 16000000
\* tolerance * 0.1 = 2e-5 rad
StagnantStep == 3200
\* tolerance = 2e-4, in units of the gradient
Tolerance == 2
\* learningRate: 0.1 at the start, within [0.001, 0.2]
LearningRateStart == 1600
LearningRateMin == 16
LearningRateMax == 3200
\* the sizes of a non-zero gradient that are followed: 1e-4 (below the
\* tolerance), 2e-4 (the tolerance), 0.1 and 2
GradientSizes == {1, 2, 1000, 20000}
\* the iterations that are followed (maxIterations is 100)
AscentMax == 4
\* bestLogL = -Infinity
MinusInfinity == -3 * FinePi
\* the distances from the other node, and from -pi, the ascent starts at
StartOffsets == {-1600, -400, 0, 400, 1600, StepClamp}

\* the sign of computeLogLikelihoodGradientFast against the one other node
\* at theta2: dPdChi < 0 away from chi = 0 and 0 at chi = 0, dLogLdP > 0
\* for a neighbour and < 0 otherwise
gradientSign(theta, theta2, linked) ==
  LET deltaThetaRaw == theta - theta2
      absDeltaTheta == Abs(deltaThetaRaw)
      minDeltaTheta == Min(absDeltaTheta, 2 * FinePi - absDeltaTheta)
      sign == IF absDeltaTheta < FinePi THEN Sign(deltaThetaRaw)
              ELSE -Sign(deltaThetaRaw)
      dPdChi == IF minDeltaTheta = 0 THEN 0 ELSE -1
      dLogLdP == IF linked THEN 1 ELSE -1
  IN dLogLdP * dPdChi * sign

\* computeLocalLogLikelihoodFast against the one other node, up to an
\* increasing function: p falls as minDeltaTheta grows, log(pSafe) is
\* added for a neighbour and log(1 - pSafe) otherwise
localLogL(theta, theta2, linked) ==
  LET diff == Abs(theta - theta2)
      minDeltaTheta == Min(diff, 2 * FinePi - diff)
  IN IF linked THEN -minDeltaTheta ELSE minDeltaTheta

\* the calls: the other node at 0 or pi, the target near it or near -pi
ClimbInputs ==
  {[pc |-> "called", thetas |-> <<start, other>>, linked |-> l,
    theta |-> 0, learningRate |-> 0, prevGradient |-> 0, stagnantCount |-> 0,
    bestTheta |-> 0, bestLogL |-> 0, iter |-> 0] :
     start \in {t \in {o + d : o \in {0, -FinePi}, d \in StartOffsets} :
                  -FinePi <= t /\ t <= FinePi},
     other \in {0, FinePi}, l \in BOOLEAN}

ClimbInit ==
  /\ RouterOff
  /\ EmbeddingOff
  /\ CallersOff
  /\ parser = [pc |-> "off", csv |-> <<>>, edges |-> <<>>]
  /\ climb \in ClimbInputs

\* lines 283-288
ClimbEnter ==
  /\ climb.pc = "called"
  /\ climb' = [climb EXCEPT !.pc = "loop",
                            !.theta = climb.thetas[1],
                            !.learningRate = LearningRateStart,
                            !.prevGradient = 0,
                            !.stagnantCount = 0,
                            !.bestTheta = climb.thetas[1],
                            !.bestLogL = MinusInfinity,
                            !.iter = 0]
  /\ UNCHANGED <<router, embedding, callers, parser>>

\* the state after one pass of the loop in which the gradient is gradient
climbStep(c, gradient) ==
  LET halved == IF Sign(gradient) # Sign(c.prevGradient) /\ c.prevGradient # 0
                  THEN c.learningRate \div 2 ELSE c.learningRate
      learningRate == Max(LearningRateMin, Min(LearningRateMax, halved))
      step == learningRate * gradient
      clampedStep == Max(-StepClamp, Min(StepClamp, step))
      theta == normalizeAngleOn(FinePi, c.theta + clampedStep)
      currentLogL == localLogL(theta, c.thetas[2], c.linked)
      better == currentLogL > c.bestLogL
      stagnant == Abs(clampedStep) < StagnantStep
      stagnantCount == IF stagnant THEN c.stagnantCount + 1 ELSE 0
      break == (stagnant /\ stagnantCount > 5) \/ Abs(gradient) < Tolerance
  IN [c EXCEPT !.learningRate = learningRate,
               !.theta = theta,
               !.bestLogL = IF better THEN currentLogL ELSE @,
               !.bestTheta = IF better THEN theta ELSE @,
               !.stagnantCount = stagnantCount,
               !.prevGradient = gradient,
               !.iter = @ + 1,
               !.pc = IF break THEN "returned" ELSE "loop"]

\* one pass of the loop, lines 290-338
ClimbIterate ==
  /\ climb.pc = "loop"
  /\ climb.iter < AscentMax
  /\ LET sign == gradientSign(climb.theta, climb.thetas[2], climb.linked)
     IN \E size \in (IF sign = 0 THEN {0} ELSE GradientSizes) :
          climb' = climbStep(climb, sign * size)
  /\ UNCHANGED <<router, embedding, callers, parser>>

\* the loop ends at maxIterations: return bestTheta
ClimbReturn ==
  /\ climb.pc = "loop"
  /\ climb.iter >= AscentMax
  /\ climb' = [climb EXCEPT !.pc = "returned"]
  /\ UNCHANGED <<router, embedding, callers, parser>>

ClimbNext ==
  \/ ClimbEnter
  \/ ClimbIterate
  \/ ClimbReturn

ClimbSpec == ClimbInit /\ [][ClimbNext]_vars

\* -------------------------------------------------------------- parseCSV
\* A string is the sequence of its characters.
Chars == {"a", "b", ",", " ", "\n"}
Whitespace == {" ", "\n"}
\* the texts parseCSV is called on: every text of up to 6 characters, and
\* the texts of a one-character header and 7 more characters without blanks
CsvInputs ==
  UNION {[1..n -> Chars] : n \in 0..6}
    \cup {<<"a", "\n">> \o body : body \in [1..7 -> Chars \ {" "}]}

\* String.prototype.trim
trim(str) ==
  LET kept == {i \in 1..Len(str) : str[i] \notin Whitespace}
  IN IF kept = {} THEN <<>>
     ELSE SubSeq(str, CHOOSE i \in kept : \A j \in kept : i <= j,
                      CHOOSE i \in kept : \A j \in kept : j <= i)

\* String.prototype.split(sep) with a one-character separator
split(str, sep) ==
  LET at == {i \in 1..Len(str) : str[i] = sep}
      \* the k-th separator; 0 and Len(str) + 1 stand before and after
      pos(k) == IF k = 0 THEN 0
                ELSE IF k > Cardinality(at) THEN Len(str) + 1
                ELSE CHOOSE i \in at : Cardinality({j \in at : j < i}) = k - 1
  IN [k \in 1..(Cardinality(at) + 1) |->
        SubSeq(str, pos(k - 1) + 1, pos(k) - 1)]

\* the loop of parseCSV from the 0-based line i on
RECURSIVE parseLines(_, _, _)
parseLines(lines, i, acc) ==
  IF i >= Len(lines) THEN acc
  ELSE LET raw == split(lines[i + 1], ",")
           parts == [k \in 1..Len(raw) |-> trim(raw[k])]
       IN IF Len(parts) < 2 THEN parseLines(lines, i + 1, acc)
          ELSE IF parts[1] # <<>> /\ parts[2] # <<>>
                 THEN parseLines(lines, i + 1,
                                 Append(acc, <<parts[1], parts[2]>>))
                 ELSE parseLines(lines, i + 1, acc)

\* parseCSV with its loop started at line 0
parseCSVFromFirstLine(csv) == parseLines(split(trim(csv), "\n"), 0, <<>>)

parseCSV(csv) == parseLines(split(trim(csv), "\n"), 1, <<>>)

ParseInit ==
  /\ RouterOff
  /\ EmbeddingOff
  /\ CallersOff
  /\ climb = [pc |-> "off"]
  /\ parser \in {[pc |-> "called", csv |-> c, edges |-> <<>>] : c \in CsvInputs}

ParseCSV ==
  /\ parser.pc = "called"
  /\ parser' = [parser EXCEPT !.pc = "returned", !.edges = parseCSV(parser.csv)]
  /\ UNCHANGED <<router, embedding, callers, climb>>

ParseNext ==
  \/ ParseCSV

ParseSpec == ParseInit /\ [][ParseNext]_vars

\* ------------------------------------------------------ embedding worker
\* src/visualization/src/embedding.worker.ts, lines 1-27
\* the messages delivered to the worker that are followed
MaxMessages == 3

\* e.data: undefined, an object without csvContent, csvContent "", a
\* csvContent that is not a string, a csv text
MessageData == {"none", "noContent", "empty", "notText", "csv"}

\* the promise of embedNetwork(csvContent): parseCSV calls csv.trim(), which
\* throws on what is not a string
embedNetworkSettles(data) ==
  IF data \in {"noContent", "notText"} THEN "rejected" ELSE "fulfilled"

\* handle without the return that follows the ERROR reply
handleFallingThrough(data) ==
  IF data = "none" THEN [pc |-> "done", posts |-> <<"ERROR">>]
  ELSE IF data \in {"noContent", "empty"}
    THEN [pc |-> "awaiting", posts |-> <<"ERROR">>]
  ELSE [pc |-> "awaiting", posts |-> <<>>]

\* the handler up to its await: the destructuring of undefined throws into
\* the catch, a falsy csvContent is answered at once
handle(data) ==
  IF data = "none" THEN [pc |-> "done", posts |-> <<"ERROR">>]
  ELSE IF data \in {"noContent", "empty"}
    THEN [pc |-> "done", posts |-> <<"ERROR">>]
  ELSE [pc |-> "awaiting", posts |-> <<>>]

\* the handler after its await: the SUCCESS reply, or the catch
resume(data) ==
  IF embedNetworkSettles(data) = "fulfilled" THEN <<"SUCCESS">>
  ELSE <<"ERROR">>

\* the replies types, each for message i
repliesTo(i, types) == [j \in 1..Len(types) |-> [to |-> i, type |-> types[j]]]

WorkerInit ==
  /\ RouterOff
  /\ EmbeddingOff
  /\ CallsOff
  /\ answers = <<>>
  /\ app = [pc |-> "off"]
  /\ worker = [pc |-> "on", inbox |-> <<>>, handlers |-> <<>>,
               posted |-> <<>>]

\* a message event: the handler runs up to its await; the await of an
\* earlier handler is resumed before the next event is taken
Deliver(data) ==
  /\ worker.pc = "on"
  /\ Len(worker.inbox) < MaxMessages
  /\ \A i \in 1..Len(worker.handlers) : worker.handlers[i] = "done"
  /\ LET i == Len(worker.inbox) + 1
         h == handle(data)
     IN worker' = [worker EXCEPT !.inbox = Append(@, data),
                                 !.handlers = Append(@, h.pc),
                                 !.posted = @ \o repliesTo(i, h.posts)]
  /\ UNCHANGED <<router, embedding, calls, answers, app>>

\* the promise of embedNetwork has settled: the rest of a handler
Resume ==
  /\ worker.pc = "on"
  /\ \E i \in 1..Len(worker.handlers) :
       /\ worker.handlers[i] = "awaiting"
       /\ worker' = [worker EXCEPT
                       !.handlers[i] = "done",
                       !.posted = @ \o repliesTo(i, resume(worker.inbox[i]))]
  /\ UNCHANGED <<router, embedding, calls, answers, app>>

WorkerNext ==
  \/ \E data \in MessageData : Deliver(data)
  \/ Resume

WorkerSpec == WorkerInit /\ [][WorkerNext]_vars

\* ------------------------------------------------------------------ App
\* src/visualization/src/main.tsx, lines 626-683: the selected dataset, its
\* content and what is embedded from it
Datasets == {"A", "B", "C"}
\* the selections of a dataset that are followed
MaxSelections == 3
\* useState<Dataset | null>(null), useState<string>("")
NoDataset == "none"

\* the text of a dataset file: the files differ
contentOf(dataset) == dataset

AppInit ==
  /\ RouterOff
  /\ EmbeddingOff
  /\ CallsOff
  /\ answers = <<>>
  /\ worker = [pc |-> "off"]
  /\ app = [pc |-> "on", selectedDataset |-> NoDataset,
            csvContent |-> NoDataset, edges |-> NoDataset,
            nodes |-> NoDataset, selections |-> <<>>, requests |-> <<>>,
            failed |-> FALSE]

\* setSelectedDataset(d) with another dataset: the effect of lines 655-669
\* runs and starts a fetch
Select(d) ==
  /\ app.pc = "on"
  /\ Len(app.selections) < MaxSelections
  /\ d # app.selectedDataset
  /\ app' = [app EXCEPT !.selectedDataset = d,
                         !.selections = Append(@, d),
                         !.requests = Append(@, [dataset |-> d,
                                                 pc |-> "fetch"])]
  /\ UNCHANGED <<router, embedding, calls, answers, worker>>

\* await fetch(...) of request n is over
Respond(n) ==
  /\ app.pc = "on"
  /\ n \in 1..Len(app.requests)
  /\ app.requests[n].pc = "fetch"
  /\ app' = [app EXCEPT !.requests[n].pc = "text"]
  /\ UNCHANGED <<router, embedding, calls, answers, worker>>

\* await response.text() of request n is over: setCsvContent(content), and
\* the effect of lines 675-683 sets the edges and, from the promise of
\* embedNetwork, the nodes
SetCsvContent(n) ==
  /\ app.pc = "on"
  /\ n \in 1..Len(app.requests)
  /\ app.requests[n].pc = "text"
  /\ LET content == contentOf(app.requests[n].dataset)
     IN app' = [app EXCEPT !.requests[n].pc = "done",
                           !.csvContent = content,
                           !.edges = content,
                           !.nodes = content]
  /\ UNCHANGED <<router, embedding, calls, answers, worker>>

\* fetch or text() of request n throws: the catch logs the error
Fail(n) ==
  /\ app.pc = "on"
  /\ n \in 1..Len(app.requests)
  /\ app.requests[n].pc \in {"fetch", "text"}
  /\ app' = [app EXCEPT !.requests[n].pc = "done", !.failed = TRUE]
  /\ UNCHANGED <<router, embedding, calls, answers, worker>>

AppNext ==
  \/ \E d \in Datasets : Select(d)
  \/ \E n \in 1..MaxSelections : Respond(n)
  \/ \E n \in 1..MaxSelections : SetCsvContent(n)
  \/ \E n \in 1..MaxSelections : Fail(n)

AppSpec == AppInit /\ [][AppNext]_vars

\* ------------------------------------------------- embedding properties
Built == epc \notin {"off", "parsed"}

\* C11: the adjacency built by buildGraph is symmetric: v is in adj[u]
\* exactly when u is in adj[v], for all node ids u and v
AdjacencySymmetric ==
  Built =>
    \A u, v \in GraphIds :
      (u \in DOMAIN stringAdjacency /\ setHas(stringAdjacency[u], v))
        <=> (v \in DOMAIN stringAdjacency /\ setHas(stringAdjacency[v], u))

\* a graph built from rows that repeat an edge in both directions and hold
\* a row with source = target
AdjacencySymmetricWitness ==
  /\ Built
  /\ \E i, j, k \in 1..Len(edges) :
       /\ edges[i][1] # edges[i][2]
       /\ edges[j] = <<edges[i][2], edges[i][1]>>
       /\ edges[k][1] = edges[k][2]
  /\ \E u, v \in DOMAIN stringAdjacency :
       u # v /\ setHas(stringAdjacency[u], v)

\* C12: self-loops are discarded on ingestion: no node of the built graph
\* is its own neighbour, also when rows have source = target
SelfLoopsDropped ==
  Built => \A u \in DOMAIN stringAdjacency : ~ setHas(stringAdjacency[u], u)

\* the distinct undirected edges of the rows, rows with source = target
\* left out
undirectedEdges(es) ==
  {{es[i][1], es[i][2]} : i \in {j \in 1..Len(es) : es[j][1] # es[j][2]}}

RECURSIVE sumOf(_, _)
sumOf(f, S) ==
  IF S = {} THEN 0
  ELSE LET x == CHOOSE y \in S : TRUE IN f[x] + sumOf(f, S \ {x})

\* C13: every node has degree[v] = |adj[v]| and the degrees sum to twice
\* the number of distinct undirected edges left after duplicates and
\* self-loops are removed
DegreeSum ==
  Built =>
    /\ \A v \in DOMAIN degrees : degrees[v] = Len(stringAdjacency[v])
    /\ sumOf(degrees, DOMAIN degrees) = 2 * Cardinality(undirectedEdges(edges))

EmbedReturned == epc = "returned"

\* C14: embedNetwork emits its nodes in non-increasing order of degree, and
\* the degree of every emitted node is the graph degree of its id
EmittedByDegree ==
  EmbedReturned =>
    /\ \A i \in 1..(Len(emitted) - 1) : emitted[i].degree >= emitted[i + 1].degree
    /\ \A i \in 1..Len(emitted) :
         emitted[i].degree = Len(stringAdjacency[emitted[i].id])

\* beta <= 1 or kappa0 <= 0
Degenerate(st) ==
  \/ st.beta # NaN /\ ~ fLess(Num(1), st.beta)
  \/ st.kappa0 # NaN /\ ~ fLess(Num(0), st.kappa0)

\* C16: when the estimated statistics are degenerate (beta <= 1 or
\* kappa0 <= 0) embedNetwork aborts with DegenerateStats and returns no
\* embedded nodes; stated on graphs that have a node and come from rows
\* with source # target only
DegenerateStatsAborts ==
  ~ /\ EmbedReturned
    /\ stats.N > 0
    /\ \A i \in 1..Len(edges) : edges[i][1] # edges[i][2]
    /\ Degenerate(stats)

\* C18 as claimed: on an input with zero nodes embedNetwork returns an
\* empty node list and stats with N = 0 and every other field NaN
EmptyGraphAllNaN ==
  (EmbedReturned /\ stats.N = 0) =>
    /\ emitted = <<>>
    /\ \A f \in {"kBar", "gamma", "beta", "clustering", "R", "kappa0"} :
         stats[f] = NaN

\* C18 as amended: on an input with zero nodes embedNetwork returns an
\* empty node list and stats with N = 0, kBar, gamma, R and kappa0 NaN,
\* clustering 0 and beta 1
EmptyGraphStats ==
  (EmbedReturned /\ stats.N = 0) =>
    /\ emitted = <<>>
    /\ \A f \in {"kBar", "gamma", "R", "kappa0"} : stats[f] = NaN
    /\ stats.clustering = Num(0)
    /\ stats.beta = Num(1)

EmptyGraphStatsWitness == EmbedReturned /\ edges = <<>> /\ stats.N = 0

\* C20: every theta emitted by embedNetwork lies in (-pi, pi]; no emitted
\* node keeps the -pi of anchor 0 or a raw random initial value
EmittedThetaRange ==
  EmbedReturned =>
    \A i \in 1..Len(emitted) :
      -HalfTurn < emitted[i].theta /\ emitted[i].theta <= HalfTurn

\* an embedding with anchors and a tail node returned, one emitted angle
\* being +pi, the normalized -pi
EmittedThetaRangeWitness ==
  /\ EmbedReturned
  /\ Len(emitted) > phase1CountOf(Len(emitted))
  /\ \E i \in 1..Len(emitted) : emitted[i].theta = HalfTurn

\* the edges the lines give when the first is ignored: one edge, the
\* trimmed first and second fields, for each later line in which both are
\* non-empty, in the order of the lines
edgesOfLines(lines) ==
  LET fields(i) == split(lines[i], ",")
      good == {i \in 2..Len(lines) :
                 /\ Len(fields(i)) >= 2
                 /\ trim(fields(i)[1]) # <<>>
                 /\ trim(fields(i)[2]) # <<>>}
      nth(k) == CHOOSE i \in good : Cardinality({j \in good : j < i}) = k - 1
  IN [k \in 1..Cardinality(good) |->
        <<trim(fields(nth(k))[1]), trim(fields(nth(k))[2])>>]

\* C15 as claimed: parseCSV ignores the first line of its input and emits,
\* for each later line in input order, exactly one edge (trimmed first
\* field, trimmed second field) when both are non-empty and nothing
\* otherwise; fields after the second are ignored
ParsesLaterLines ==
  parser.pc = "returned" =>
    parser.edges = edgesOfLines(split(parser.csv, "\n"))

\* C15 as amended: the same of the lines of the input with its leading and
\* trailing whitespace removed, so that the line ignored is the first line
\* that is not blank
ParsesLaterLinesOfTrimmed ==
  parser.pc = "returned" =>
    parser.edges = edgesOfLines(split(trim(parser.csv), "\n"))

\* two different edges emitted from two lines of a text
ParsesLaterLinesWitness ==
  /\ parser.pc = "returned"
  /\ Len(parser.edges) = 2
  /\ parser.edges[1] # parser.edges[2]

\* C19: the theta a phase-1 gradient ascent returns has a local
\* log-likelihood greater than or equal to that of the theta it started from
AscentNeverWorse ==
  climb.pc = "returned" =>
    localLogL(climb.bestTheta, climb.thetas[2], climb.linked)
      >= localLogL(climb.thetas[1], climb.thetas[2], climb.linked)

\* C24: over rows that join distinct nodes, the angle phase 2 gives to a
\* node is the circular mean of the angles of its neighbours that are placed
\* already (the anchors and the nodes phase 2 placed before it), the other
\* neighbours contributing nothing, and a random angle when it has no such
\* neighbour
PlacedNeighboursOnly ==
  [][(/\ epc = "phase2"
      /\ cursor < Len(sortedNodes)
      /\ \A n \in 1..Len(edges) : edges[n][1] # edges[n][2]) =>
       LET neighbors == adjSetOf(sortedNodes, stringAdjacency, cursor + 1)
           placed == SelectSeq(neighbors, LAMBDA j : j <= cursor)
           angles == [j \in 1..Len(placed) |-> thetas[placed[j]]]
       IN thetas'[cursor + 1] \in
            IF placed = <<>> THEN {normalizeAngle(r) : r \in Randoms}
            ELSE {normalizeAngle(m) : m \in atan2Of(angles)}
    ]_vars

\* C25: once phase 1 has ended the angles of the anchors are not written
\* again, and phase 2 writes the angle of each other node once, in the
\* sorted order, before embedNetwork returns
PhasesSeparate ==
  epc \in {"phase2", "returned"} =>
    LET K == phase1CountOf(Len(sortedNodes))
    IN /\ cursor >= K
       /\ writes = [j \in 1..(cursor - K) |-> K + j]
       /\ epc = "returned" => Len(writes) = Len(sortedNodes) - K

\* a run that returned after phase 2 placed two nodes behind two anchors
PhasesSeparateWitness ==
  /\ epc = "returned"
  /\ phase1CountOf(Len(sortedNodes)) = 2
  /\ Len(writes) = 2

\* C21: two runs of embedNetwork on one csv return the same NetworkStats,
\* the same nodes in the same order and the same kappa and r for every
\* node, whatever the random numbers of the two runs
RunsAgree ==
  (epc = "returned" /\ lastRun # <<>>) =>
    /\ outcome(stats, emitted).stats = lastRun.stats
    /\ outcome(stats, emitted).nodes = lastRun.nodes

\* two runs on one csv that returned different angles
RunsAgreeWitness ==
  /\ epc = "returned"
  /\ lastRun # <<>>
  /\ Len(emitted) >= 3
  /\ outcome(stats, emitted).theta # lastRun.theta

\* C29: for every message delivered to the worker the handler posts one
\* reply and no more: ERROR when csvContent is empty or missing or the
\* embedding throws, and otherwise SUCCESS; none is posted before the handler
\* is over and one when it is
OneReply ==
  worker.pc = "on" =>
    \A i \in 1..Len(worker.inbox) :
      LET replies == SelectSeq(worker.posted, LAMBDA p : p.to = i)
          expected == IF worker.inbox[i] = "csv" THEN "SUCCESS" ELSE "ERROR"
      IN IF worker.handlers[i] = "done"
           THEN Len(replies) = 1 /\ replies[1].type = expected
           ELSE replies = <<>>

\* three messages answered: one from the test of csvContent, one from the
\* catch after the embedding threw, one with the result
OneReplyWitness ==
  /\ worker.pc = "on"
  /\ Len(worker.posted) = 3
  /\ {worker.inbox[i] : i \in 1..Len(worker.inbox)}
       = {"empty", "notText", "csv"}

\* C30: after dataset A and then dataset B were selected and both fetches
\* have completed, csvContent, and with it the edges and the nodes shown, is
\* the content of B, in whichever order the two responses arrived
SelectedDatasetShown ==
  (/\ app.pc = "on"
   /\ Len(app.selections) = 2
   /\ ~ app.failed
   /\ \A n \in 1..Len(app.requests) : app.requests[n].pc = "done") =>
     /\ app.csvContent = contentOf(app.selectedDataset)
     /\ app.edges = contentOf(app.selectedDataset)
     /\ app.nodes = contentOf(app.selectedDataset)
====
